---- MODULE Spec2Model ----
(***************************************************************************)
(* Task manager CLI: one invocation of `main` loads tasks.toml, runs one   *)
(* command handler on the in-memory Vec<Task>, and saves the Vec back.     *)
(* The file system is the only state shared between invocations.           *)
(*                                                                         *)
(* Modelling assumptions, stated once:                                     *)
(*  - fs::read_to_string and fs::write succeed and are atomic with respect *)
(*    to other invocations (no Io error, no torn write);                   *)
(*  - u32 is scaled down to 0..MaxU32; `max + 1` on u32 panics when the    *)
(*    binary is built with overflow checks (debug) and wraps otherwise     *)
(*    (release), so both outcomes are possible;                            *)
(*  - app/models.rs (Task, TaskList and their serde derives) is not part   *)
(*    of the sources at hand; it is modelled from the specification.       *)
(***************************************************************************)
EXTENDS Integers, Sequences, FiniteSets, TLC

VARIABLES file, pc, cmd, tasks, err, out, loads, saves, fileSeen,
          removed, track, firstOverlapSaver

vars == <<file, pc, cmd, tasks, err, out, loads, saves, fileSeen,
          removed, track, firstOverlapSaver>>

---------------------------------------------------------------------------
(* Bounds *)

\* stands for u32::MAX: ids range over 0..MaxU32
MaxU32 == 3
\* an `add` invocation is only started while the stored file holds fewer records
MaxTasks == 3
\* longest task list of an initial tasks.toml
MaxInit == 2
\* longest task list of an initial tasks.toml when two invocations overlap
MaxInitConc == 1
\* longest task list of an initial tasks.toml when removed ids are recorded
MaxInitReuse == 1

Ids == 0..MaxU32
Procs == {1, 2}
Other(p) == 3 - p

GoodDate == "2025-01-01"
BadDate == "2025-13-40"
None == <<>>
Some(d) == <<d>>
\* (description, due) pairs given on the command line; --due went through parse_due_date
AddInputs == {<<"a", None>>, <<"b", Some(GoodDate)>>}

NoError == <<"none">>
NoOutput == <<"none">>
TaskNotFound(id) == <<"TaskNotFound", id>>
TomlDeserialize == <<"TomlDeserialize">>
Panic == <<"panic">>

---------------------------------------------------------------------------
(* Task and its TOML form *)

\* Task::new: completed defaults to false
NewTask(id, description, due_date) ==
    [id |-> id, description |-> description, due_date |-> due_date, completed |-> FALSE]

\* Task::mark_completion
MarkCompletion(t, status) == [t EXCEPT !.completed = status]

\* a [[tasks]] table: the key due_date is omitted when the date is None
TomlOfTask(t) ==
    IF t.due_date = None
    THEN [id |-> t.id, description |-> t.description, completed |-> t.completed]
    ELSE [id |-> t.id, description |-> t.description, due_date |-> t.due_date[1],
          completed |-> t.completed]

\* a table deserializes when its date, if present, is a calendar date
TableParses(r) == ("due_date" \in DOMAIN r) => r.due_date = GoodDate

TaskOfToml(r) ==
    [id |-> r.id, description |-> r.description,
     due_date |-> IF "due_date" \in DOMAIN r THEN Some(r.due_date) ELSE None,
     completed |-> r.completed]

\* TaskList { tasks }: the array of tables under the key `tasks`, in order
TomlOfTaskList(ts) == [i \in 1..Len(ts) |-> TomlOfTask(ts[i])]

TaskListOfToml(c) == [i \in 1..Len(c) |-> TaskOfToml(c[i])]

NoFile == [exists |-> FALSE, contents |-> <<>>]
FileOf(contents) == [exists |-> TRUE, contents |-> contents]

---------------------------------------------------------------------------
(* storage.rs *)

Ok(v) == [ok |-> TRUE, val |-> v, err |-> NoError]
Err(e) == [ok |-> FALSE, val |-> <<>>, err |-> e]

LoadTasks_NoDue(f) ==
    IF ~f.exists THEN Ok(<<>>)
    ELSE IF \E i \in 1..Len(f.contents) : ~TableParses(f.contents[i])
         THEN Err(TomlDeserialize)
         ELSE Ok([i \in 1..Len(f.contents) |->
                    [TaskOfToml(f.contents[i]) EXCEPT !.due_date = None]])

LoadTasks(f) ==
    IF ~f.exists THEN Ok(<<>>)
    ELSE IF \E i \in 1..Len(f.contents) : ~TableParses(f.contents[i])
         THEN Err(TomlDeserialize)
         ELSE Ok(TaskListOfToml(f.contents))

SaveTasks_DropLast(ts) ==
    FileOf(TomlOfTaskList(SubSeq(ts, 1, Len(ts) - 1)))

SaveTasks(ts) == FileOf(TomlOfTaskList(ts))

---------------------------------------------------------------------------
(* main.rs: helpers *)

IdsOf(ts) == {ts[i].id : i \in 1..Len(ts)}

SetMax(S) == CHOOSE m \in S : \A x \in S : x <= m

\* tasks.iter().map(|t| t.id).max().unwrap_or(0)
MaxIdOrZero(ts) == IF ts = <<>> THEN 0 ELSE SetMax(IdsOf(ts))

\* tasks.iter_mut().find(|t| t.id == id)
FindIndex(ts, id) ==
    CHOOSE i \in 1..Len(ts) : ts[i].id = id /\ \A j \in 1..(i - 1) : ts[j].id # id

\* tasks.retain(|task| task.id != id)
Retain(ts, id) == SelectSeq(ts, LAMBDA t : t.id # id)

Shown(ts, show_all) == SelectSeq(ts, LAMBDA t : show_all \/ ~t.completed)

ShownIds(ts, show_all) ==
    LET rows == Shown(ts, show_all) IN [i \in 1..Len(rows) |-> rows[i].id]

Command(op, id, description, due, flag) ==
    [op |-> op, id |-> id, description |-> description, due |-> due, flag |-> flag]

Commands ==
    {Command("add", 0, a[1], a[2], FALSE) : a \in AddInputs}
    \cup {Command("list", 0, "", None, all) : all \in BOOLEAN}
    \cup {Command(op, id, "", None, FALSE) : op \in {"complete", "undone", "remove"}, id \in Ids}
    \cup {Command("clear", 0, "", None, yes) : yes \in BOOLEAN}

NoCommand == Command("none", 0, "", None, FALSE)

Terminal == {"done", "failed", "panicked"}

---------------------------------------------------------------------------
(* main.rs: one invocation *)

\* process start and Cli::parse
Start(p) ==
    /\ pc[p] = "idle"
    /\ \E c \in Commands :
         /\ c.op = "add" => Len(file.contents) < MaxTasks
         /\ cmd' = [cmd EXCEPT ![p] = c]
    /\ pc' = [pc EXCEPT ![p] = "started"]
    /\ tasks' = [tasks EXCEPT ![p] = <<>>]
    /\ err' = [err EXCEPT ![p] = NoError]
    /\ out' = [out EXCEPT ![p] = NoOutput]
    /\ loads' = [loads EXCEPT ![p] = 0]
    /\ saves' = [saves EXCEPT ![p] = 0]
    /\ fileSeen' = [fileSeen EXCEPT ![p] = file]
    /\ UNCHANGED <<file, removed, track, firstOverlapSaver>>

\* let mut tasks = storage::load_tasks()?;
Load(p) ==
    /\ pc[p] = "started"
    /\ LET r == LoadTasks(file) IN
         /\ pc' = [pc EXCEPT ![p] = IF r.ok THEN "loaded" ELSE "failed"]
         /\ tasks' = [tasks EXCEPT ![p] = r.val]
         /\ err' = [err EXCEPT ![p] = r.err]
    /\ loads' = [loads EXCEPT ![p] = @ + 1]
    /\ fileSeen' = [fileSeen EXCEPT ![p] = file]
    /\ UNCHANGED <<file, cmd, out, saves, removed, track, firstOverlapSaver>>

Handled(p, ts, o) ==
    /\ pc' = [pc EXCEPT ![p] = "handled"]
    /\ tasks' = [tasks EXCEPT ![p] = ts]
    /\ out' = [out EXCEPT ![p] = o]
    /\ UNCHANGED <<file, cmd, err, loads, saves, fileSeen, track, firstOverlapSaver>>

Failed(p, ts, e) ==
    /\ pc' = [pc EXCEPT ![p] = "failed"]
    /\ tasks' = [tasks EXCEPT ![p] = ts]
    /\ err' = [err EXCEPT ![p] = e]
    /\ UNCHANGED <<file, cmd, out, loads, saves, fileSeen, track, firstOverlapSaver>>

HandleAddTask_LenPlusOne(p) ==
    /\ pc[p] = "loaded"
    /\ cmd[p].op = "add"
    /\ LET new_id == Len(tasks[p]) + 1 IN
         /\ new_id <= MaxU32
         /\ Handled(p, Append(tasks[p], NewTask(new_id, cmd[p].description, cmd[p].due)),
                    <<"Task added", new_id>>)
    /\ UNCHANGED removed

HandleAddTask(p) ==
    /\ pc[p] = "loaded"
    /\ cmd[p].op = "add"
    /\ LET sum == MaxIdOrZero(tasks[p]) + 1 IN
         \/ /\ sum <= MaxU32
            /\ Handled(p, Append(tasks[p], NewTask(sum, cmd[p].description, cmd[p].due)),
                       <<"Task added", sum>>)
         \/ \* overflow checks on: attempt to add with overflow
            /\ sum > MaxU32
            /\ pc' = [pc EXCEPT ![p] = "panicked"]
            /\ err' = [err EXCEPT ![p] = Panic]
            /\ UNCHANGED <<file, cmd, tasks, out, loads, saves, fileSeen, track, firstOverlapSaver>>
         \/ \* overflow checks off: two's complement wrap
            /\ sum > MaxU32
            /\ LET new_id == sum % (MaxU32 + 1) IN
                 Handled(p, Append(tasks[p], NewTask(new_id, cmd[p].description, cmd[p].due)),
                         <<"Task added", new_id>>)
    /\ UNCHANGED removed

HandleListTasks(p) ==
    /\ pc[p] = "loaded"
    /\ cmd[p].op = "list"
    /\ Handled(p, tasks[p],
               IF tasks[p] = <<>> THEN <<"No tasks found">>
               ELSE <<"Listed", ShownIds(tasks[p], cmd[p].flag)>>)
    /\ UNCHANGED removed

HandleMarkTaskCompletion(p) ==
    /\ pc[p] = "loaded"
    /\ cmd[p].op \in {"complete", "undone"}
    /\ LET id == cmd[p].id
           status == (cmd[p].op = "complete")
       IN  IF id \in IdsOf(tasks[p])
           THEN LET i == FindIndex(tasks[p], id) IN
                  Handled(p, [tasks[p] EXCEPT ![i] = MarkCompletion(@, status)],
                          <<"Marked", id, status>>)
           ELSE Failed(p, tasks[p], TaskNotFound(id))
    /\ UNCHANGED removed

HandleRemoveTask_AlwaysOk(p) ==
    /\ pc[p] = "loaded"
    /\ cmd[p].op = "remove"
    /\ Handled(p, Retain(tasks[p], cmd[p].id), <<"Removed", cmd[p].id>>)
    /\ UNCHANGED removed

HandleRemoveTask_First(p) ==
    /\ pc[p] = "loaded"
    /\ cmd[p].op = "remove"
    /\ LET id == cmd[p].id
           ts == tasks[p]
       IN  IF id \in IdsOf(ts)
           THEN LET i == FindIndex(ts, id) IN
                  /\ Handled(p, SubSeq(ts, 1, i - 1) \o SubSeq(ts, i + 1, Len(ts)),
                             <<"Removed", id>>)
                  /\ UNCHANGED removed
           ELSE /\ Failed(p, ts, TaskNotFound(id))
                /\ UNCHANGED removed

HandleRemoveTask(p) ==
    /\ pc[p] = "loaded"
    /\ cmd[p].op = "remove"
    /\ LET id == cmd[p].id
           initial_len == Len(tasks[p])
           kept == Retain(tasks[p], id)
       IN  IF Len(kept) < initial_len
           THEN /\ Handled(p, kept, <<"Removed", id>>)
                /\ removed' = IF ~track \/ kept = <<>> THEN {} ELSE removed \cup {id}
           ELSE /\ Failed(p, kept, TaskNotFound(id))
                /\ UNCHANGED removed

HandleClearTasks_NoConfirm(p) ==
    /\ pc[p] = "loaded"
    /\ cmd[p].op = "clear"
    /\ Handled(p, <<>>, <<"Cleared", Len(tasks[p])>>)
    /\ removed' = {}

HandleClearTasks(p) ==
    /\ pc[p] = "loaded"
    /\ cmd[p].op = "clear"
    /\ IF ~cmd[p].flag
       THEN /\ Handled(p, tasks[p], <<"Use --yes to confirm">>)
            /\ UNCHANGED removed
       ELSE /\ Handled(p, <<>>, <<"Cleared", Len(tasks[p])>>)
            /\ removed' = {}

\* storage::save_tasks(&tasks)?;
Save(p) ==
    /\ pc[p] = "handled"
    /\ file' = SaveTasks(tasks[p])
    /\ pc' = [pc EXCEPT ![p] = "done"]
    /\ saves' = [saves EXCEPT ![p] = @ + 1]
    /\ firstOverlapSaver' =
         IF \A q \in Procs : pc[q] \in {"loaded", "handled"} THEN p ELSE firstOverlapSaver
    /\ UNCHANGED <<cmd, tasks, err, out, loads, fileSeen, removed, track>>

\* the process ends: Ok(()) or the error returned from main, or the panic
Exit(p) ==
    /\ pc[p] \in Terminal
    /\ pc' = [pc EXCEPT ![p] = "idle"]
    /\ cmd' = [cmd EXCEPT ![p] = NoCommand]
    /\ tasks' = [tasks EXCEPT ![p] = <<>>]
    /\ err' = [err EXCEPT ![p] = NoError]
    /\ out' = [out EXCEPT ![p] = NoOutput]
    /\ loads' = [loads EXCEPT ![p] = 0]
    /\ saves' = [saves EXCEPT ![p] = 0]
    /\ fileSeen' = [fileSeen EXCEPT ![p] = file]
    /\ UNCHANGED <<file, removed, track, firstOverlapSaver>>

Main(p) ==
    \/ Start(p)
    \/ Load(p)
    \/ HandleAddTask(p)
    \/ HandleListTasks(p)
    \/ HandleMarkTaskCompletion(p)
    \/ HandleRemoveTask(p)
    \/ HandleClearTasks(p)
    \/ Save(p)

---------------------------------------------------------------------------
(* Initial states and specifications *)

GoodTables ==
    {TomlOfTask([id |-> i, description |-> a[1], due_date |-> a[2], completed |-> c]) :
        i \in Ids, a \in AddInputs, c \in BOOLEAN}

\* a hand-edited record whose date is not a calendar date
BadTable == [id |-> 1, description |-> "a", due_date |-> BadDate, completed |-> FALSE]

Tables == GoodTables \cup {BadTable}

RECURSIVE SeqsUpTo(_, _)
SeqsUpTo(S, n) ==
    IF n = 0 THEN {<<>>}
    ELSE LET shorter == SeqsUpTo(S, n - 1) IN
           shorter \cup {Append(s, x) : s \in {t \in shorter : Len(t) = n - 1}, x \in S}

Files(n) == {NoFile} \cup {FileOf(c) : c \in SeqsUpTo(Tables, n)}

InitWith(f, running, tracking) ==
    /\ file = f
    /\ pc = [p \in Procs |-> IF p \in running THEN "idle" ELSE "off"]
    /\ cmd = [p \in Procs |-> NoCommand]
    /\ tasks = [p \in Procs |-> <<>>]
    /\ err = [p \in Procs |-> NoError]
    /\ out = [p \in Procs |-> NoOutput]
    /\ loads = [p \in Procs |-> 0]
    /\ saves = [p \in Procs |-> 0]
    /\ fileSeen = [p \in Procs |-> IF p \in running THEN f ELSE NoFile]
    /\ removed = {}
    /\ track = tracking
    /\ firstOverlapSaver = 0

\* one user running the program again and again
Init == \E f \in Files(MaxInit) : InitWith(f, {1}, FALSE)

Next == Main(1) \/ Exit(1)

Spec == Init /\ [][Next]_vars

Distinct(ts) == \A i, j \in 1..Len(ts) : ts[i].id = ts[j].id => i = j

\* the same, from a stored file whose ids are pairwise distinct
InitDistinct == \E f \in Files(MaxInit) : Distinct(f.contents) /\ InitWith(f, {1}, FALSE)

SpecDistinct == InitDistinct /\ [][Next]_vars

\* one user again, with the ids removed since the list was last empty recorded
InitReuse == \E f \in Files(MaxInitReuse) : InitWith(f, {1}, TRUE)

SpecReuse == InitReuse /\ [][Next]_vars

\* two invocations, each run once, interleaved at will
InitConc == \E f \in Files(MaxInitConc) : InitWith(f, Procs, FALSE)

NextConc == \E p \in Procs : Main(p)

SpecConc == InitConc /\ [][NextConc]_vars

---------------------------------------------------------------------------
(* Properties *)

\* the handler of invocation p returns in this step
AddStep(p) == pc[p] = "loaded" /\ cmd[p].op = "add" /\ pc'[p] # "loaded"
AddDone(p) == AddStep(p) /\ pc'[p] = "handled"
LookupStep(p) ==
    pc[p] = "loaded" /\ cmd[p].op \in {"complete", "undone", "remove"} /\ pc'[p] # "loaded"
RemoveStep(p) == pc[p] = "loaded" /\ cmd[p].op = "remove" /\ pc'[p] # "loaded"
ClearStep(p) == pc[p] = "loaded" /\ cmd[p].op = "clear" /\ pc'[p] # "loaded"

Last(s) == s[Len(s)]

\* the table r records exactly the task t
Records(r, t) ==
    /\ r.id = t.id
    /\ r.description = t.description
    /\ r.completed = t.completed
    /\ ("due_date" \in DOMAIN r) <=> (t.due_date # None)
    /\ ("due_date" \in DOMAIN r) => t.due_date = <<r.due_date>>

\* the file f holds the collection ts, whole and in order
Stores(f, ts) ==
    /\ f.exists
    /\ Len(f.contents) = Len(ts)
    /\ \A i \in 1..Len(ts) : Records(f.contents[i], ts[i])

\* C1: starting from a stored collection with pairwise distinct ids (or none), every
\* collection reached by add, complete, undone, remove and clear has pairwise
\* distinct ids, in memory and on file.
C1_DistinctIds ==
    /\ Distinct(file.contents)
    /\ \A p \in Procs : Distinct(tasks[p])

\* C2: add always succeeds, appending a task with id (max id, or 0) + 1 and
\* completed = false, leaving the existing tasks as they were.
C2_AddAssignsMaxPlusOne ==
    [][\A p \in Procs : AddStep(p) =>
          /\ pc'[p] = "handled"
          /\ tasks'[p] = Append(tasks[p],
                                [id |-> MaxIdOrZero(tasks[p]) + 1,
                                 description |-> cmd[p].description,
                                 due_date |-> cmd[p].due,
                                 completed |-> FALSE])]_vars

\* C3 as stated: an add never assigns an id removed since the collection was last
\* empty, and on an empty collection it assigns 1.
C3_NeverReusesRemovedId ==
    [][\A p \in Procs : AddDone(p) =>
          /\ Last(tasks'[p]).id \notin removed
          /\ tasks[p] = <<>> => Last(tasks'[p]).id = 1]_vars

\* C3 amended: an add assigns a removed id r again exactly when r is the id computed
\* from the tasks still present, (max id, or 0) + 1 in u32 arithmetic; on an empty
\* collection it assigns 1.
C3_ReusesRemovedIdIffNext ==
    [][\A p \in Procs : AddDone(p) =>
          /\ \A r \in removed :
                (Last(tasks'[p]).id = r)
                    <=> (r = (MaxIdOrZero(tasks[p]) + 1) % (MaxU32 + 1))
          /\ tasks[p] = <<>> => Last(tasks'[p]).id = 1]_vars

\* C3 witness: an add has just given a new task the id of a task removed earlier,
\* while other tasks are present and without overflow.
C3_Witness ==
    /\ track
    /\ pc[1] = "handled"
    /\ cmd[1].op = "add"
    /\ Len(tasks[1]) >= 2
    /\ Last(tasks[1]).id \in removed
    /\ Last(tasks[1]).id = MaxIdOrZero(SubSeq(tasks[1], 1, Len(tasks[1]) - 1)) + 1

\* C4: complete, undone and remove on an id that is not present fail with
\* TaskNotFound(id) and leave the collection as it was; on an id that is present
\* they succeed.
C4_NotFound ==
    [][\A p \in Procs : LookupStep(p) =>
          IF cmd[p].id \in IdsOf(tasks[p])
          THEN pc'[p] = "handled" /\ err'[p] = NoError
          ELSE /\ pc'[p] = "failed"
               /\ err'[p] = <<"TaskNotFound", cmd[p].id>>
               /\ tasks'[p] = tasks[p]]_vars

\* C4 witness: a remove of an absent id on a non-empty collection has failed.
C4_Witness ==
    /\ pc[1] = "failed"
    /\ cmd[1].op = "remove"
    /\ tasks[1] # <<>>
    /\ cmd[1].id \notin IdsOf(tasks[1])
    /\ err[1] = <<"TaskNotFound", cmd[1].id>>

RemoveFirst(ts, id) ==
    LET i == FindIndex(ts, id) IN SubSeq(ts, 1, i - 1) \o SubSeq(ts, i + 1, Len(ts))

Matches(ts, id) == {i \in 1..Len(ts) : ts[i].id = id}

\* C7 as stated: remove of a present id deletes exactly one task, the first one
\* with that id.
C7_RemovesFirstOnly ==
    [][\A p \in Procs : (RemoveStep(p) /\ cmd[p].id \in IdsOf(tasks[p])) =>
          /\ Len(tasks'[p]) = Len(tasks[p]) - 1
          /\ tasks'[p] = RemoveFirst(tasks[p], cmd[p].id)]_vars

\* C7 amended: remove of a present id deletes every task with that id (exactly one
\* when ids are distinct): the length decreases by the number of matches, at least
\* 1, and the other tasks remain, unchanged and in their order.
C7_RemovesEveryMatch ==
    [][\A p \in Procs : (RemoveStep(p) /\ cmd[p].id \in IdsOf(tasks[p])) =>
          /\ pc'[p] = "handled"
          /\ Cardinality(Matches(tasks[p], cmd[p].id)) >= 1
          /\ Len(tasks'[p]) = Len(tasks[p]) - Cardinality(Matches(tasks[p], cmd[p].id))
          /\ tasks'[p] = SelectSeq(tasks[p], LAMBDA t : t.id # cmd[p].id)
          /\ Distinct(tasks[p]) => tasks'[p] = RemoveFirst(tasks[p], cmd[p].id)]_vars

\* C7 witness: a remove has deleted two tasks with the same id and kept another.
C7_Witness ==
    /\ pc[1] = "handled"
    /\ cmd[1].op = "remove"
    /\ Len(fileSeen[1].contents) = Len(tasks[1]) + 2
    /\ tasks[1] # <<>>

\* C8: clear with confirmation empties the collection and reports its former
\* length; without confirmation it succeeds and leaves the collection as it was.
C8_Clear ==
    [][\A p \in Procs : ClearStep(p) =>
          /\ pc'[p] = "handled"
          /\ err'[p] = NoError
          /\ IF cmd[p].flag
             THEN tasks'[p] = <<>> /\ out'[p] = <<"Cleared", Len(tasks[p])>>
             ELSE tasks'[p] = tasks[p]]_vars

\* C8 witness: a confirmed clear of two tasks has reported 2.
C8_Witness ==
    /\ pc[1] = "handled"
    /\ cmd[1].op = "clear"
    /\ cmd[1].flag
    /\ tasks[1] = <<>>
    /\ out[1] = <<"Cleared", 2>>

\* both invocations loaded before either saved, and both have finished saving
BothSavedOverlapped ==
    /\ firstOverlapSaver # 0
    /\ pc[1] = "done"
    /\ pc[2] = "done"

\* C9: when both invocations load before either saves, the file ends as the
\* collection of the one that saved last, computed from the file both loaded; the
\* other one's change is not in it; neither reports an error; two adds give their
\* tasks the same id.
C9_LastWriterWins ==
    BothSavedOverlapped =>
        LET l == firstOverlapSaver
            w == Other(firstOverlapSaver)
            before == fileSeen[w].contents
        IN  /\ fileSeen[l] = fileSeen[w]
            /\ Stores(file, tasks[w])
            /\ tasks[l] # tasks[w] => ~Stores(file, tasks[l])
            /\ err[1] = NoError
            /\ err[2] = NoError
            /\ (cmd[l].op = "remove" /\ cmd[w].op \in {"add", "list", "complete", "undone"})
                  => cmd[l].id \in IdsOf(file.contents)
            /\ (cmd[l].op = "add" /\ cmd[w].op \in {"list", "complete", "undone"})
                  => Len(file.contents) = Len(before)
            /\ (cmd[l].op = "add" /\ cmd[w].op = "add") =>
                  /\ Last(tasks[l]).id = Last(tasks[w]).id
                  /\ Len(file.contents) = Len(before) + 1
                  /\ Records(Last(file.contents), Last(tasks[w]))

\* C9 witness: two overlapping adds of different tasks have both saved.
C9_Witness ==
    /\ BothSavedOverlapped
    /\ cmd[1].op = "add"
    /\ cmd[2].op = "add"
    /\ cmd[1].description # cmd[2].description
    /\ fileSeen[1].contents # <<>>

\* C10: add never fails, and the id it assigns is at least 1 and differs from
\* every id already present, also when the largest id present is u32::MAX.
C10_AddNeverFails ==
    [][\A p \in Procs : AddStep(p) =>
          /\ pc'[p] = "handled"
          /\ Last(tasks'[p]).id >= 1
          /\ Last(tasks'[p]).id \notin IdsOf(tasks[p])]_vars

====
